---- MODULE Spec2Model ----
(***************************************************************************)
(* A model of scraper.py, the RMIT policy scraper: the text normalizer     *)
(* clean_text, the clause extractor extract_clauses_from_list, the         *)
(* document extractor scrape_policy_document, the link discoverer          *)
(* get_all_policy_links and the driver scrape_all_policies.                *)
(*                                                                         *)
(* A text is a sequence of characters; a character is a one-letter string, *)
(* or one of the two names NBSP (U+00A0) and ZWSP (U+200B).                *)
(***************************************************************************)
EXTENDS Integers, Sequences, FiniteSets, TLC

VARIABLES
    pc,             \* where the modelled call stands
    text,           \* clean_text: the argument
    cleaned,        \* clean_text: the returned text
    ol_element,     \* extract_clauses_from_list: the argument
    clauses,        \* extract_clauses_from_list: the returned list
    soup,           \* scrape_policy_document: the parsed page
    policy_json,    \* scrape_policy_document: the returned document
    strings,        \* the date scan: soup.stripped_strings
    scanned,        \* the date scan: how many strings the loop has taken
    approval_date,  \* the date scan: approval_date
    review_date,    \* the date scan: review_date
    browse,         \* what requests.get(BROWSE_URL) ends in
    anchors,        \* the hrefs of the browse page's anchors, in document order
    policy_links,   \* get_all_policy_links: the returned list; the driver's list
    max_policies,   \* scrape_all_policies: the argument, 0 for None
    i,              \* scrape_all_policies: the links handled so far
    success_count,
    failed_count,
    log,            \* scrape_all_policies: per link, what was fetched and printed
    save_calls,     \* the documents save_policy_json was called with
    summary         \* scrape_all_policies: the returned statistics

vars ==
    <<pc, text, cleaned, ol_element, clauses, soup, policy_json,
      strings, scanned, approval_date, review_date,
      browse, anchors, policy_links,
      max_policies, i, success_count, failed_count, log, save_calls, summary>>

cleanVars == <<text, cleaned>>

clauseVars == <<ol_element, clauses>>

docVars == <<soup, policy_json>>

dateVars == <<strings, scanned, approval_date, review_date>>

linkVars == <<browse, anchors, policy_links>>

driverVars == <<max_policies, i, success_count, failed_count, log, save_calls, summary>>

(***************************************************************************)
(* Sequences                                                               *)
(***************************************************************************)
RECURSIVE SeqsUpTo(_, _)
\* every sequence over S of length at most n
SeqsUpTo(S, n) ==
    IF n = 0 THEN {<<>>}
    ELSE LET shorter == SeqsUpTo(S, n - 1)
         IN  shorter \cup {Append(s, x) : s \in {t \in shorter : Len(t) = n - 1}, x \in S}

RECURSIVE Rep(_, _)
\* n copies of the character c
Rep(c, n) == IF n <= 0 THEN <<>> ELSE <<c>> \o Rep(c, n - 1)

(***************************************************************************)
(* clean_text, scraper.py 68-81                                            *)
(***************************************************************************)
NBSP == "nbsp"
ZWSP == "zwsp"

\* what Python's \s and str.strip() take for whitespace in a str: the ASCII
\* whitespace and the Unicode spaces, U+00A0 among them; U+200B is not one
Whitespace == {" ", "\t", "\n", "\r", NBSP}

IsSpace(c) == c \in Whitespace

RECURSIVE LStrip(_)
LStrip(s) == IF s # <<>> /\ IsSpace(Head(s)) THEN LStrip(Tail(s)) ELSE s

RECURSIVE RStrip(_)
RStrip(s) ==
    IF s # <<>> /\ IsSpace(s[Len(s)]) THEN RStrip(SubSeq(s, 1, Len(s) - 1)) ELSE s

\* text.strip()
Strip(s) == RStrip(LStrip(s))

RECURSIVE CollapseWhitespace(_)
\* re.sub(r'\s+', ' ', text): every maximal run of whitespace becomes one space
CollapseWhitespace(s) ==
    IF s = <<>> THEN <<>>
    ELSE IF IsSpace(Head(s)) THEN <<" ">> \o CollapseWhitespace(LStrip(s))
    ELSE <<Head(s)>> \o CollapseWhitespace(Tail(s))

\* text.replace(old, new) for a single character old
Replace(s, old, new) == [k \in 1..Len(s) |-> IF s[k] = old THEN new ELSE s[k]]

\* text.replace(old, '') for a single character old
Remove(s, old) == SelectSeq(s, LAMBDA c : c # old)

clean_text(raw) ==
    IF raw = <<>> THEN <<>>
    ELSE Remove(Replace(Strip(CollapseWhitespace(raw)), NBSP, " "), ZWSP)

MinTextLen == 20

(***************************************************************************)
(* The parsed tree under a list.  A list element is [name, items], an item *)
(* (li) is [text, lists]: its own text, then the lists nested in it, in    *)
(* document order.                                                         *)
(***************************************************************************)
Leaf(t) == [text |-> t, lists |-> <<>>]

Li(t, ls) == [text |-> t, lists |-> ls]

List(n, its) == [name |-> n, items |-> its]

RECURSIVE get_text(_)
RECURSIVE ListText(_)
RECURSIVE ItemsText(_)
\* li.get_text(): every string under the item, concatenated in document order
get_text(li) == li.text \o ListText(li.lists)

ListText(ls) == IF ls = <<>> THEN <<>> ELSE ItemsText(Head(ls).items) \o ListText(Tail(ls))

ItemsText(its) == IF its = <<>> THEN <<>> ELSE get_text(Head(its)) \o ItemsText(Tail(its))

RECURSIVE find_all_li(_)
RECURSIVE LiUnderLists(_)
\* the li elements under a sequence of items, at any depth, in document order
find_all_li(its) ==
    IF its = <<>> THEN <<>>
    ELSE <<Head(its)>> \o LiUnderLists(Head(its).lists) \o find_all_li(Tail(its))

LiUnderLists(ls) ==
    IF ls = <<>> THEN <<>> ELSE find_all_li(Head(ls).items) \o LiUnderLists(Tail(ls))

(***************************************************************************)
(* extract_clauses_from_list, scraper.py 84-109                            *)
(***************************************************************************)
Digits == <<"0", "1", "2", "3", "4", "5", "6", "7", "8", "9">>

RECURSIVE Str(_)
\* str(n) for n >= 0: the decimal digits of n
Str(n) == IF n < 10 THEN <<Digits[n + 1]>> ELSE Str(n \div 10) \o <<Digits[(n % 10) + 1]>>

\* line 91: an item whose cleaned text is shorter than 20 characters is skipped
SkipItem(t) == Len(t) < MinTextLen

KeepEverySub(sub_text) == TRUE

\* line 100: a nested item is kept when its cleaned text has 20 characters or more
KeepSub(sub_text) == Len(sub_text) >= MinTextLen

\* lines 95-101: the items, at any depth, of the first list nested in li
Subclauses(li) ==
    IF li.lists = <<>> THEN <<>>
    ELSE LET subs == find_all_li(li.lists[1].items)
             cleanedSubs == [k \in 1..Len(subs) |-> clean_text(get_text(subs[k]))]
         IN  SelectSeq(cleanedSubs, KeepSub)

CompactClauseNumber(idx, sofar) == Str(Len(sofar) + 1)

\* line 104: str(i + 1), idx standing for i, the index of the item among the
\* direct items, from 0
ClauseNumber(idx, sofar) == Str(idx + 1)

Clause(number, t, subs) == [clause_number |-> number, text |-> t, subclauses |-> subs]

extract_clauses_from_list(ol) ==
    LET items == ol.items
        after[n \in 0..Len(items)] ==
            IF n = 0 THEN <<>>
            ELSE LET li == items[n]
                     t == clean_text(get_text(li))
                 IN  IF SkipItem(t) THEN after[n - 1]
                     ELSE Append(after[n - 1],
                                 Clause(ClauseNumber(n - 1, after[n - 1]), t, Subclauses(li)))
    IN  after[Len(items)]

ClauseIdle == ol_element = List("ol", <<>>) /\ clauses = <<>>

(***************************************************************************)
(* The parsed page.  An element is [name, text, kids, items]: its tag name *)
(* (a div of class "content" is named "div.content"), its own text, its    *)
(* child elements, and, for a list, its direct li items.  The page is the  *)
(* sequence of the elements at its top.                                    *)
(***************************************************************************)
Node(n, t, ks) == [name |-> n, text |-> t, kids |-> ks, items |-> <<>>]

ListNode(n, its) == [name |-> n, text |-> <<>>, kids |-> <<>>, items |-> its]

RECURSIVE NodeText(_)
RECURSIVE NodesText(_)
\* tag.get_text()
NodeText(n) == n.text \o NodesText(n.kids) \o ItemsText(n.items)

NodesText(ns) == IF ns = <<>> THEN <<>> ELSE NodeText(Head(ns)) \o NodesText(Tail(ns))

RECURSIVE FindAll(_, _)
\* the elements under ns, at any depth, whose name is in names, in document order
FindAll(ns, names) ==
    IF ns = <<>> THEN <<>>
    ELSE (IF Head(ns).name \in names THEN <<Head(ns)>> ELSE <<>>)
         \o FindAll(Head(ns).kids, names) \o FindAll(Tail(ns), names)

RECURSIVE HeadingsWithSiblings(_)
\* each h2 and h3 under ns, in document order, with the siblings that follow it
\* (heading.find_next_siblings())
HeadingsWithSiblings(ns) ==
    IF ns = <<>> THEN <<>>
    ELSE (IF Head(ns).name \in {"h2", "h3"}
          THEN <<[heading |-> Head(ns), siblings |-> Tail(ns)]>> ELSE <<>>)
         \o HeadingsWithSiblings(Head(ns).kids) \o HeadingsWithSiblings(Tail(ns))

(***************************************************************************)
(* The date scan of scrape_policy_document, scraper.py 138-150             *)
(***************************************************************************)
UpperCase ==
    <<"A", "B", "C", "D", "E", "F", "G", "H", "I", "J", "K", "L", "M",
      "N", "O", "P", "Q", "R", "S", "T", "U", "V", "W", "X", "Y", "Z">>

LowerCase ==
    <<"a", "b", "c", "d", "e", "f", "g", "h", "i", "j", "k", "l", "m",
      "n", "o", "p", "q", "r", "s", "t", "u", "v", "w", "x", "y", "z">>

LowerChar(c) ==
    IF \E k \in 1..26 : UpperCase[k] = c
    THEN LowerCase[CHOOSE k \in 1..26 : UpperCase[k] = c] ELSE c

\* text.lower()
Lower(s) == [k \in 1..Len(s) |-> LowerChar(s[k])]

\* sub in s
HasSubstring(s, sub) ==
    \E k \in 1..(Len(s) - Len(sub) + 1) : SubSeq(s, k, k + Len(sub) - 1) = sub

IsDigit(c) == \E k \in 1..10 : Digits[k] = c

IsSeparator(c) == c \in {"-", "/"}

AllDigits(s, from, to) == \A k \in from..to : IsDigit(s[k])

YearLen == 4

\* \d{a}[-/]\d{b}[-/]\d{4} matches s from position k on
DateAt(s, k, a, b) ==
    /\ k + a + b + YearLen + 1 <= Len(s)
    /\ AllDigits(s, k, k + a - 1)
    /\ IsSeparator(s[k + a])
    /\ AllDigits(s, k + a + 1, k + a + b)
    /\ IsSeparator(s[k + a + b + 1])
    /\ AllDigits(s, k + a + b + 2, k + a + b + YearLen + 1)

DateStarts(s) == {k \in 1..Len(s) : \E a \in 1..2, b \in 1..2 : DateAt(s, k, a, b)}

\* re.search(date_pattern, text): the leftmost match; at one start at most one
\* split of the digits matches, the separators being no digits
HasDate(s) == DateStarts(s) # {}

\* match.group()
FirstDate(s) ==
    LET k == CHOOSE x \in DateStarts(s) : \A y \in DateStarts(s) : x <= y
        ab == CHOOSE p \in (1..2) \X (1..2) : DateAt(s, k, p[1], p[2])
    IN  SubSeq(s, k, k + ab[1] + ab[2] + YearLen + 1)

\* "approval date"
ApprovalDateWord ==
    <<"a", "p", "p", "r", "o", "v", "a", "l", " ", "d", "a", "t", "e">>

\* "approved"
ApprovedWord ==
    <<"a", "p", "p", "r", "o", "v", "e", "d">>

\* "review date"
ReviewDateWord ==
    <<"r", "e", "v", "i", "e", "w", " ", "d", "a", "t", "e">>

\* "reviewed"
ReviewedWord ==
    <<"r", "e", "v", "i", "e", "w", "e", "d">>

\* line 143
NamesApproval(t) == HasSubstring(Lower(t), ApprovalDateWord) \/ HasSubstring(Lower(t), ApprovedWord)

\* line 147
NamesReview(t) == HasSubstring(Lower(t), ReviewDateWord) \/ HasSubstring(Lower(t), ReviewedWord)

KeepFirstDate(old, t) == IF old = <<>> /\ HasDate(t) THEN FirstDate(t) ELSE old

\* lines 144-146 and 148-150: a match is assigned, whatever the date held before
AssignDate(old, t) == IF HasDate(t) THEN FirstDate(t) ELSE old

\* lines 143-150: one turn of the loop, on the dates [approval, review]
ScanString(dates, t) ==
    [approval |-> IF NamesApproval(t) THEN AssignDate(dates.approval, t) ELSE dates.approval,
     review |-> IF NamesReview(t) THEN AssignDate(dates.review, t) ELSE dates.review]

RECURSIVE ScanDates(_)
\* lines 138-150: the dates after the whole loop
ScanDates(ss) ==
    IF ss = <<>> THEN [approval |-> <<>>, review |-> <<>>]
    ELSE ScanString(ScanDates(SubSeq(ss, 1, Len(ss) - 1)), ss[Len(ss)])

RECURSIVE StrippedStrings(_)
RECURSIVE ItemStrings(_)
RECURSIVE ListStrings(_)
Stripped(t) == IF Strip(t) = <<>> THEN <<>> ELSE <<Strip(t)>>

\* soup.stripped_strings: the strings of the page in document order, each
\* stripped, the empty ones left out
StrippedStrings(ns) ==
    IF ns = <<>> THEN <<>>
    ELSE Stripped(Head(ns).text) \o StrippedStrings(Head(ns).kids)
         \o ItemStrings(Head(ns).items) \o StrippedStrings(Tail(ns))

ItemStrings(its) ==
    IF its = <<>> THEN <<>>
    ELSE Stripped(Head(its).text) \o ListStrings(Head(its).lists) \o ItemStrings(Tail(its))

ListStrings(ls) ==
    IF ls = <<>> THEN <<>> ELSE ItemStrings(Head(ls).items) \o ListStrings(Tail(ls))

\* datetime.now().strftime("%Y-%m-%d"): the day of the run, one day standing
\* for whatever the clock says
\* "2024-01-01"
Today ==
    <<"2", "0", "2", "4", "-", "0", "1", "-", "0", "1">>

(***************************************************************************)
(* scrape_policy_document, scraper.py 112-213                              *)
(***************************************************************************)
UnknownPolicy ==
    <<"U", "n", "k", "n", "o", "w", "n", " ", "P", "o", "l", "i", "c", "y">>

\* lines 132-135
Title(page) ==
    LET h1 == FindAll(page, {"h1"})
    IN  IF h1 = <<>> THEN UnknownPolicy ELSE clean_text(NodeText(h1[1]))

NoArea == [found |-> FALSE, kids |-> <<>>]

\* line 156: the first div of class content, else the first main, else the body
ContentArea(page) ==
    LET div == FindAll(page, {"div.content"})
        main == FindAll(page, {"main"})
        body == FindAll(page, {"body"})
    IN  IF div # <<>> THEN [found |-> TRUE, kids |-> div[1].kids]
        ELSE IF main # <<>> THEN [found |-> TRUE, kids |-> main[1].kids]
        ELSE IF body # <<>> THEN [found |-> TRUE, kids |-> body[1].kids]
        ELSE NoArea

MinTitleLen == 3

\* line 163
SkipHeading(section_title) == section_title = <<>> \/ Len(section_title) < MinTitleLen

\* line 171: a Tag equals another when name, attributes and contents agree, so a
\* later heading that repeats this one word for word does not stop the walk
StopsWalk(sibling, heading) == sibling.name \in {"h2", "h3"} /\ sibling # heading

\* line 181
KeepParagraph(t) == Len(t) >= MinTextLen

\* line 183
ParagraphNumber(sofar) == Str(Len(sofar) + 1)

RECURSIVE CollectClauses(_, _, _)
\* lines 169-186: the clauses of the siblings after heading, up to the next heading
CollectClauses(heading, siblings, sofar) ==
    IF siblings = <<>> THEN sofar
    ELSE LET sibling == Head(siblings)
         IN  IF StopsWalk(sibling, heading) THEN sofar
             ELSE IF sibling.name = "ol"
                  THEN CollectClauses(heading, Tail(siblings),
                                      sofar \o extract_clauses_from_list(sibling))
             ELSE IF sibling.name = "p"
                  THEN LET t == clean_text(NodeText(sibling))
                       IN  IF KeepParagraph(t)
                           THEN CollectClauses(heading, Tail(siblings),
                                    Append(sofar, Clause(ParagraphNumber(sofar), t, <<>>)))
                           ELSE CollectClauses(heading, Tail(siblings), sofar)
             ELSE CollectClauses(heading, Tail(siblings), sofar)

KeepAnySection(cs) == TRUE

\* line 189
KeepSection(cs) == cs # <<>>

\* lines 153-193
Sections(page) ==
    LET area == ContentArea(page)
        hs == IF area.found THEN HeadingsWithSiblings(area.kids) ELSE <<>>
        walk[n \in 0..Len(hs)] ==
            IF n = 0 THEN <<>>
            ELSE LET section_title == clean_text(NodeText(hs[n].heading))
                     cs == CollectClauses(hs[n].heading, hs[n].siblings, <<>>)
                 IN  IF SkipHeading(section_title) THEN walk[n - 1]
                     ELSE IF KeepSection(cs)
                          THEN Append(walk[n - 1],
                                      [section_title |-> section_title, clauses |-> cs])
                          ELSE walk[n - 1]
    IN  walk[Len(hs)]

MainContent ==
    <<"M", "a", "i", "n", " ", "C", "o", "n", "t", "e", "n", "t">>

\* lines 129-213, the page fetched and parsed; scraped_date, the time of the
\* run, is left out
scrape_policy_document(url, page) ==
    [metadata |->
        [title |-> Title(page),
         approval_date |-> ScanDates(StrippedStrings(page)).approval,
         review_date |->
            IF ScanDates(StrippedStrings(page)).review # <<>>
            THEN ScanDates(StrippedStrings(page)).review ELSE Today,
         source_path |-> url],
     structure |-> <<[part_title |-> MainContent, sections |-> Sections(page)]>>,
     qa_index |-> <<>>]

None ==
    [metadata |-> [title |-> <<>>, approval_date |-> <<>>, review_date |-> <<>>,
                   source_path |-> <<>>],
     structure |-> <<>>, qa_index |-> <<>>]

DateIdle == strings = <<>> /\ scanned = 0 /\ approval_date = <<>> /\ review_date = <<>>

DocIdle == soup = <<>> /\ policy_json = None

(***************************************************************************)
(* get_all_policy_links, scraper.py 26-65                                  *)
(***************************************************************************)
\* "https://policies.rmit.edu.au"
BASE_URL ==
    <<"h", "t", "t", "p", "s", ":", "/", "/", "p", "o", "l", "i", "c", "i",
      "e", "s", ".", "r", "m", "i", "t", ".", "e", "d", "u", ".", "a", "u">>

\* "document/view"
DocumentView ==
    <<"d", "o", "c", "u", "m", "e", "n", "t", "/", "v", "i", "e", "w">>

\* "view.php"
ViewPhp ==
    <<"v", "i", "e", "w", ".", "p", "h", "p">>

\* "http"
Http ==
    <<"h", "t", "t", "p">>

\* s.startswith(prefix)
StartsWith(s, prefix) == Len(s) >= Len(prefix) /\ SubSeq(s, 1, Len(prefix)) = prefix

\* line 50
IsPolicyLink(href) == HasSubstring(href, DocumentView) \/ HasSubstring(href, ViewPhp)

AlwaysJoinWithSlash(href) == BASE_URL \o <<"/">> \o href

\* lines 52-57
FullUrl(href) ==
    IF StartsWith(href, Http) THEN href
    ELSE IF StartsWith(href, <<"/">>) THEN BASE_URL \o href
    ELSE BASE_URL \o <<"/">> \o href

RECURSIVE CollectLinks(_)
\* lines 43-59: the list before the duplicates go
CollectLinks(hrefs) ==
    IF hrefs = <<>> THEN <<>>
    ELSE (IF IsPolicyLink(Head(hrefs)) THEN <<FullUrl(Head(hrefs))>> ELSE <<>>)
         \o CollectLinks(Tail(hrefs))

Range(f) == {f[k] : k \in DOMAIN f}

\* every list that holds each member of S once
Orderings(S) == {l \in [1..Cardinality(S) -> S] : Range(l) = S}

KeepDuplicates(links) == {links}

\* line 62, list(set(policy_links)): a set keeps no order, so any order of the
\* distinct links may come back
Deduplicated(links) == Orderings(Range(links))

\* the lists get_all_policy_links may return
get_all_policy_links(fetch, hrefs) ==
    IF fetch = "RequestException" THEN {<<>>} ELSE Deduplicated(CollectLinks(hrefs))

LinkIdle == browse = "ok" /\ anchors = <<>> /\ policy_links = <<>>

(***************************************************************************)
(* scrape_all_policies, scraper.py 244-311                                 *)
(***************************************************************************)
Min(a, b) == IF a <= b THEN a ELSE b

Max(a, b) == IF a >= b THEN a ELSE b

\* lines 267-268: None and 0 leave the list alone, a negative count cuts from the end
Truncated(links, count) ==
    IF count = 0 THEN links
    ELSE IF count > 0 THEN SubSeq(links, 1, Min(count, Len(links)))
    ELSE SubSeq(links, 1, Max(Len(links) + count, 0))

PersistAnyDocument(policy) == policy # None

\* line 282
Persistable(policy) == policy # None /\ policy.structure[1].sections # <<>>

\* what fetching and extracting a link ends in: the fetch raises a
\* RequestException (None comes back, lines 125-127), something else raises in
\* scrape_policy_document, or the page is extracted
Extracted(url, response) ==
    IF response.kind = "page" THEN scrape_policy_document(url, response.page) ELSE None

\* lines 278-293: what the turn prints
Outcome(response, policy, write) ==
    IF response.kind = "Exception" THEN "error"
    ELSE IF Persistable(policy) THEN (IF write = "ok" THEN "saved" ELSE "error")
    ELSE "skipped"

ErrorsNotCounted(outcome, success, failed) ==
    [success |-> IF outcome = "saved" THEN success + 1 ELSE success,
     failed |-> IF outcome = "skipped" THEN failed + 1 ELSE failed]

\* lines 286, 289 and 293
Counted(outcome, success, failed) ==
    [success |-> IF outcome = "saved" THEN success + 1 ELSE success,
     failed |-> IF outcome \in {"skipped", "error"} THEN failed + 1 ELSE failed]

ErrorPropagates(outcome) == IF outcome = "error" THEN "raised" ELSE "loop"

\* lines 291-296: an exception is caught and printed, and the loop goes on
AfterTurn(outcome) == "loop"

NoSummary == [success |-> 0, failed |-> 0, total |-> 0]

DriverIdle ==
    /\ max_policies = 0
    /\ i = 0
    /\ success_count = 0
    /\ failed_count = 0
    /\ log = <<>>
    /\ save_calls = <<>>
    /\ summary = NoSummary

(***************************************************************************)
(* The text normalizer on its own: every text over RawChars of at most     *)
(* MaxRawLen characters is cleaned.                                        *)
(***************************************************************************)
MaxRawLen == 5

RawChars == {"a", " ", "\n", NBSP, ZWSP}

CleanIdle == text = <<>> /\ cleaned = <<>>

CleanInit ==
    /\ pc = "call"
    /\ text \in SeqsUpTo(RawChars, MaxRawLen)
    /\ cleaned = <<>>
    /\ ClauseIdle
    /\ DocIdle
    /\ DateIdle
    /\ LinkIdle
    /\ DriverIdle

CallCleanText ==
    /\ pc = "call"
    /\ cleaned' = clean_text(text)
    /\ pc' = "return"
    /\ UNCHANGED <<text, clauseVars, docVars, dateVars, linkVars, driverVars>>

SpecClean == CleanInit /\ [][CallCleanText]_vars

HasDoubleSpace(s) == \E k \in 1..(Len(s) - 1) : s[k] = " " /\ s[k + 1] = " "

Contains(s, c) == \E k \in 1..Len(s) : s[k] = c

\* C8: whatever the input, the text clean_text returns holds no non-breaking
\* space, no zero-width space and no two consecutive ASCII spaces.
CleanTextNoArtifacts ==
    pc = "return" =>
        /\ ~Contains(cleaned, NBSP)
        /\ ~Contains(cleaned, ZWSP)
        /\ ~HasDoubleSpace(cleaned)

(***************************************************************************)
(* The clause extractor on its own: every list of at most MaxItems direct  *)
(* items drawn from ItemSamples is extracted.                              *)
(***************************************************************************)
MaxItems == 5

A(n) == Rep("a", n)

\* a short item
ItemShort == Leaf(A(5))

\* 19 characters once cleaned, 22 as written
ItemNineteen == Leaf(A(19) \o <<" ", " ", NBSP>>)

\* 20 characters once cleaned, 23 as written
ItemTwenty == Leaf(A(10) \o <<" ", "\n", " ", " ">> \o A(9))

\* a short text of its own and a nested list of a long and a short item
ItemNested == Li(A(3), <<List("ul", <<Leaf(A(20)), Leaf(A(19))>>)>>)

\* a nested list whose item holds a list of its own, and a second nested list
ItemDeep ==
    Li(A(20), <<List("ol", <<Li(A(10), <<List("ol", <<Leaf(A(12))>>)>>)>>),
                List("ul", <<Leaf(A(25))>>)>>)

ItemSamples == {ItemShort, ItemNineteen, ItemTwenty, ItemNested, ItemDeep}

ClausesInit ==
    /\ pc = "call"
    /\ ol_element \in {List("ol", its) : its \in SeqsUpTo(ItemSamples, MaxItems)}
    /\ clauses = <<>>
    /\ CleanIdle
    /\ DocIdle
    /\ DateIdle
    /\ LinkIdle
    /\ DriverIdle

CallExtractClauses ==
    /\ pc = "call"
    /\ clauses' = extract_clauses_from_list(ol_element)
    /\ pc' = "return"
    /\ UNCHANGED <<ol_element, cleanVars, docVars, dateVars, linkVars, driverVars>>

SpecClauses == ClausesInit /\ [][CallExtractClauses]_vars

\* the positions, from 1, of the direct items whose cleaned text is long enough
KeptPositions(ol) ==
    {p \in 1..Len(ol.items) : Len(clean_text(get_text(ol.items[p]))) >= 20}

\* the j-th smallest member of a set of numbers
Nth(S, j) == CHOOSE p \in S : Cardinality({q \in S : q < p}) = j - 1

RECURSIVE ParseInt(_)
\* the number a sequence of decimal digits writes
ParseInt(ds) ==
    IF ds = <<>> THEN 0
    ELSE 10 * ParseInt(SubSeq(ds, 1, Len(ds) - 1))
         + (CHOOSE d \in 0..9 : Digits[d + 1] = ds[Len(ds)])

\* C5: within one call of extract_clauses_from_list, the retained items are
\* the direct items whose cleaned text is long enough, each numbered with its
\* 1-based position among all direct items (a skipped item still uses up its
\* number), so the numbers are strictly increasing.
ClauseNumbersArePositions ==
    pc = "return" =>
        LET kept == KeptPositions(ol_element)
        IN  /\ Len(clauses) = Cardinality(kept)
            /\ \A j \in 1..Len(clauses) :
                   /\ clauses[j].clause_number = Str(Nth(kept, j))
                   /\ clauses[j].text = clean_text(get_text(ol_element.items[Nth(kept, j)]))
            /\ \A j \in 1..(Len(clauses) - 1) :
                   ParseInt(clauses[j].clause_number) < ParseInt(clauses[j + 1].clause_number)

\* five items, the second too short: the numbers are 1, 3, 4, 5
FiveItemsSecondShort ==
    /\ pc = "return"
    /\ Len(ol_element.items) = 5
    /\ KeptPositions(ol_element) = {1, 3, 4, 5}
    /\ [j \in 1..Len(clauses) |-> clauses[j].clause_number] = <<<<"1">>, <<"3">>, <<"4">>, <<"5">>>>

(***************************************************************************)
(* The document extractor on its own: a page wraps at most MaxSiblings     *)
(* sibling elements drawn from NodeSamples.                                *)
(***************************************************************************)
MaxSiblings == 3

\* "Scope"
ScopeTitle ==
    <<"S", "c", "o", "p", "e">>

\* "Aims"
AimsTitle ==
    <<"A", "i", "m", "s">>

\* "Travel Policy"
PolicyTitle ==
    <<"T", "r", "a", "v", "e", "l", " ", "P", "o", "l", "i", "c", "y">>

\* "https://policies.rmit.edu.au/document/view/123"
PageUrl ==
    <<"h", "t", "t", "p", "s", ":", "/", "/", "p", "o", "l", "i", "c", "i",
      "e", "s", ".", "r", "m", "i", "t", ".", "e", "d", "u", ".", "a", "u",
      "/", "d", "o", "c", "u", "m", "e", "n", "t", "/", "v", "i", "e", "w",
      "/", "1", "2", "3">>

H1Title == Node("h1", PolicyTitle, <<>>)

H2Scope == Node("h2", ScopeTitle, <<>>)

\* a heading whose title is too short to open a section
H3Short == Node("h3", <<"a", "b">>, <<>>)

\* 21 characters once cleaned
PLong == Node("p", <<" ">> \o A(10) \o <<" ", NBSP>> \o A(10), <<>>)

\* 19 characters once cleaned
PShort == Node("p", A(19) \o <<ZWSP, " ">>, <<>>)

\* a short item, then a long one: the one clause is numbered 2
OlGap == ListNode("ol", <<ItemShort, ItemTwenty>>)

OlNested == ListNode("ol", <<ItemTwenty, ItemNested>>)

UlPlain == ListNode("ul", <<ItemTwenty>>)

\* a heading and its paragraph one level down
DivNested == Node("div", <<>>, <<Node("h3", AimsTitle, <<>>), PLong>>)

NodeSamples == {H2Scope, H3Short, PLong, PShort, OlGap, OlNested, UlPlain, DivNested}

Html(ks) == <<Node("html", <<>>, <<Node("body", <<>>, ks)>>)>>

\* the siblings in the body, in a main beside other content, in a div of class
\* content inside a main, or in a page with none of the three
Wrap(kind, siblings) ==
    CASE kind = "body" -> Html(<<H1Title>> \o siblings)
      [] kind = "main" ->
            Html(<<H1Title, Node("main", <<>>, siblings), H2Scope, PLong>>)
      [] kind = "div.content" ->
            Html(<<Node("main", <<>>,
                        <<H2Scope, PLong, Node("div.content", <<>>, siblings)>>)>>)
      [] OTHER -> siblings

WrapKinds == {"body", "main", "div.content", "bare"}

DocInit ==
    /\ pc = "call"
    /\ soup \in {Wrap(kind, siblings) :
                    kind \in WrapKinds, siblings \in SeqsUpTo(NodeSamples, MaxSiblings)}
    /\ policy_json = None
    /\ CleanIdle
    /\ ClauseIdle
    /\ DateIdle
    /\ LinkIdle
    /\ DriverIdle

\* the page is fetched and extracted
CallScrapeDocument ==
    /\ pc = "call"
    /\ policy_json' = scrape_policy_document(PageUrl, soup)
    /\ pc' = "return"
    /\ UNCHANGED <<soup, cleanVars, clauseVars, dateVars, linkVars, driverVars>>

\* lines 122-127: the fetch raises a RequestException and None is returned
CallScrapeDocumentFails ==
    /\ pc = "call"
    /\ policy_json' = None
    /\ pc' = "return"
    /\ UNCHANGED <<soup, cleanVars, clauseVars, dateVars, linkVars, driverVars>>

SpecDoc == DocInit /\ [][CallScrapeDocument \/ CallScrapeDocumentFails]_vars

SectionsOf(policy) == policy.structure[1].sections

\* C4: in every section of a returned document the clause numbers are, in
\* order, "1", "2", ..., "n".
ClauseNumbersContiguous ==
    (pc = "return" /\ policy_json # None) =>
        \A k \in 1..Len(SectionsOf(policy_json)) :
            \A j \in 1..Len(SectionsOf(policy_json)[k].clauses) :
                SectionsOf(policy_json)[k].clauses[j].clause_number = Str(j)

\* C6: in every section of a returned document every clause text, from a list
\* item or from a paragraph, and every subclause has 20 characters or more.
NoShortClauseRetained ==
    (pc = "return" /\ policy_json # None) =>
        \A k \in 1..Len(SectionsOf(policy_json)) :
            \A j \in 1..Len(SectionsOf(policy_json)[k].clauses) :
                LET c == SectionsOf(policy_json)[k].clauses[j]
                IN  /\ Len(c.text) >= 20
                    /\ \A m \in 1..Len(c.subclauses) : Len(c.subclauses[m]) >= 20

\* a section of a list with a short nested item and a short paragraph: the
\* two list items are the clauses, the second with its one long subclause
ShortOnesDropped ==
    /\ pc = "return"
    /\ soup = Wrap("body", <<H2Scope, OlNested, PShort>>)
    /\ Len(SectionsOf(policy_json)) = 1
    /\ Len(SectionsOf(policy_json)[1].clauses) = 2
    /\ Len(find_all_li(OlNested.items[2].lists[1].items)) = 2
    /\ SectionsOf(policy_json)[1].clauses[2].subclauses = <<A(20)>>

\* C7: no section of a returned document has an empty clause sequence.
NoEmptySection ==
    (pc = "return" /\ policy_json # None) =>
        /\ Len(policy_json.structure) = 1
        /\ \A k \in 1..Len(SectionsOf(policy_json)) :
               SectionsOf(policy_json)[k].clauses # <<>>

\* a heading followed by a short paragraph and a div only is left out, the
\* heading inside the div is a section
EmptySectionLeftOut ==
    /\ pc = "return"
    /\ soup = Wrap("body", <<H2Scope, PShort, DivNested>>)
    /\ Len(SectionsOf(policy_json)) = 1
    /\ SectionsOf(policy_json)[1].section_title = AimsTitle

(***************************************************************************)
(* The date scan on its own: the loop of lines 142-150 over at most        *)
(* MaxFragments strings drawn from FragmentSamples, one string a step.     *)
(***************************************************************************)
MaxFragments == 3

\* "Approval Date: 01/02/2020"
ApprovalFragment ==
    <<"A", "p", "p", "r", "o", "v", "a", "l", " ", "D", "a", "t", "e", ":",
      " ", "0", "1", "/", "0", "2", "/", "2", "0", "2", "0">>

\* "approved 3-4-2021"
ApprovedFragment ==
    <<"a", "p", "p", "r", "o", "v", "e", "d", " ", "3", "-", "4", "-", "2",
      "0", "2", "1">>

\* "Review date 05/06/2022"
ReviewFragment ==
    <<"R", "e", "v", "i", "e", "w", " ", "d", "a", "t", "e", " ", "0", "5",
      "/", "0", "6", "/", "2", "0", "2", "2">>

\* "Approved and reviewed on 7/8/2023"
BothFragment ==
    <<"A", "p", "p", "r", "o", "v", "e", "d", " ", "a", "n", "d", " ", "r",
      "e", "v", "i", "e", "w", "e", "d", " ", "o", "n", " ", "7", "/", "8",
      "/", "2", "0", "2", "3">>

\* "Approved by Council"
NoDateFragment ==
    <<"A", "p", "p", "r", "o", "v", "e", "d", " ", "b", "y", " ", "C", "o",
      "u", "n", "c", "i", "l">>

\* "Updated 09/10/2024 1/1/2000"
NoWordFragment ==
    <<"U", "p", "d", "a", "t", "e", "d", " ", "0", "9", "/", "1", "0", "/",
      "2", "0", "2", "4", " ", "1", "/", "1", "/", "2", "0", "0", "0">>

FragmentSamples ==
    {ApprovalFragment, ApprovedFragment, ReviewFragment, BothFragment,
     NoDateFragment, NoWordFragment}

DatesInit ==
    /\ pc = "scan"
    /\ strings \in SeqsUpTo(FragmentSamples, MaxFragments)
    /\ scanned = 0
    /\ approval_date = <<>>
    /\ review_date = <<>>
    /\ CleanIdle
    /\ ClauseIdle
    /\ DocIdle
    /\ LinkIdle
    /\ DriverIdle

\* one turn of the loop
ScanNext ==
    /\ pc = "scan"
    /\ scanned < Len(strings)
    /\ LET after == ScanString([approval |-> approval_date, review |-> review_date],
                               strings[scanned + 1])
       IN  /\ approval_date' = after.approval
           /\ review_date' = after.review
    /\ scanned' = scanned + 1
    /\ UNCHANGED <<pc, strings, cleanVars, clauseVars, docVars, linkVars, driverVars>>

\* the loop is over
ScanDone ==
    /\ pc = "scan"
    /\ scanned = Len(strings)
    /\ pc' = "return"
    /\ UNCHANGED <<strings, scanned, approval_date, review_date,
                   cleanVars, clauseVars, docVars, linkVars, driverVars>>

SpecDates == DatesInit /\ [][ScanNext \/ ScanDone]_vars

\* the places, among the strings scanned so far, of those that name the
\* approval (the review) and hold a date
ApprovalMatches == {k \in 1..scanned : NamesApproval(strings[k]) /\ HasDate(strings[k])}

ReviewMatches == {k \in 1..scanned : NamesReview(strings[k]) /\ HasDate(strings[k])}

Least(S) == CHOOSE x \in S : \A y \in S : x <= y

Greatest(S) == CHOOSE x \in S : \A y \in S : x >= y

\* C10 as stated: the first string that names the approval and holds a date
\* sets approval_date and later ones do not overwrite it; the same for the
\* review and review_date.
FirstMatchWins ==
    /\ approval_date =
           IF ApprovalMatches = {} THEN <<>> ELSE FirstDate(strings[Least(ApprovalMatches)])
    /\ review_date =
           IF ReviewMatches = {} THEN <<>> ELSE FirstDate(strings[Least(ReviewMatches)])

\* C10 as the code has it: the last string scanned that names the approval
\* and holds a date sets approval_date, each such string overwriting the date
\* of the ones before; the same, independently, for the review and review_date.
LastMatchWins ==
    /\ approval_date =
           IF ApprovalMatches = {} THEN <<>> ELSE FirstDate(strings[Greatest(ApprovalMatches)])
    /\ review_date =
           IF ReviewMatches = {} THEN <<>> ELSE FirstDate(strings[Greatest(ReviewMatches)])

\* two strings with different approval dates were scanned, and the second date stands
TwoApprovalsScanned ==
    /\ pc = "return"
    /\ strings = <<ApprovalFragment, ReviewFragment, ApprovedFragment>>
    /\ approval_date = <<"3", "-", "4", "-", "2", "0", "2", "1">>
    /\ review_date = <<"0", "5", "/", "0", "6", "/", "2", "0", "2", "2">>

(***************************************************************************)
(* The link discoverer on its own: a browse page of at most MaxAnchors     *)
(* anchors with hrefs drawn from HrefSamples.                              *)
(***************************************************************************)
MaxAnchors == 3

\* "/document/view/123"
HrefRelative ==
    <<"/", "d", "o", "c", "u", "m", "e", "n", "t", "/", "v", "i", "e", "w",
      "/", "1", "2", "3">>

\* "https://policies.rmit.edu.au/document/view/123"
HrefAbsolute ==
    <<"h", "t", "t", "p", "s", ":", "/", "/", "p", "o", "l", "i", "c", "i",
      "e", "s", ".", "r", "m", "i", "t", ".", "e", "d", "u", ".", "a", "u",
      "/", "d", "o", "c", "u", "m", "e", "n", "t", "/", "v", "i", "e", "w",
      "/", "1", "2", "3">>

\* "/other/page"
HrefOther ==
    <<"/", "o", "t", "h", "e", "r", "/", "p", "a", "g", "e">>

\* "document/view/123"
HrefNoSlash ==
    <<"d", "o", "c", "u", "m", "e", "n", "t", "/", "v", "i", "e", "w", "/",
      "1", "2", "3">>

\* "view.php?id=7"
HrefViewPhp ==
    <<"v", "i", "e", "w", ".", "p", "h", "p", "?", "i", "d", "=", "7">>

\* "http://example.org/view.php"
HrefElsewhere ==
    <<"h", "t", "t", "p", ":", "/", "/", "e", "x", "a", "m", "p", "l", "e",
      ".", "o", "r", "g", "/", "v", "i", "e", "w", ".", "p", "h", "p">>

\* "/about/overview.php"
HrefOverview ==
    <<"/", "a", "b", "o", "u", "t", "/", "o", "v", "e", "r", "v", "i", "e",
      "w", ".", "p", "h", "p">>

HrefSamples ==
    {HrefRelative, HrefAbsolute, HrefOther, HrefNoSlash, HrefViewPhp,
     HrefElsewhere, HrefOverview}

LinksInit ==
    /\ pc = "call"
    /\ browse \in {"ok", "RequestException"}
    /\ anchors \in SeqsUpTo(HrefSamples, MaxAnchors)
    /\ policy_links = <<>>
    /\ CleanIdle
    /\ ClauseIdle
    /\ DocIdle
    /\ DateIdle
    /\ DriverIdle

CallGetLinks ==
    /\ pc = "call"
    /\ \E links \in get_all_policy_links(browse, anchors) : policy_links' = links
    /\ pc' = "return"
    /\ UNCHANGED <<browse, anchors, cleanVars, clauseVars, docVars, dateVars, driverVars>>

SpecLinks == LinksInit /\ [][CallGetLinks]_vars

\* "https://policies.rmit.edu.au"
Origin ==
    <<"h", "t", "t", "p", "s", ":", "/", "/", "p", "o", "l", "i", "c", "i",
      "e", "s", ".", "r", "m", "i", "t", ".", "e", "d", "u", ".", "a", "u">>

\* the absolute form of an href: unchanged when it starts with http, appended
\* to the origin when it starts with a slash, else joined to it with one slash
Absolute(href) ==
    IF Len(href) >= 4 /\ SubSeq(href, 1, 4) = <<"h", "t", "t", "p">> THEN href
    ELSE IF href # <<>> /\ href[1] = "/" THEN Origin \o href
    ELSE Origin \o <<"/">> \o href

\* C9: the list returned for a fetched browse page has no duplicate and holds
\* exactly the absolute forms of the hrefs that contain "document/view" or
\* "view.php"; the other hrefs are never returned.
LinksAreTheDistinctPolicyUrls ==
    (pc = "return" /\ browse = "ok") =>
        /\ \A j, k \in 1..Len(policy_links) : policy_links[j] = policy_links[k] => j = k
        /\ Range(policy_links) =
               {Absolute(anchors[k]) : k \in {n \in 1..Len(anchors) :
                    \/ HasSubstring(anchors[n], DocumentView)
                    \/ HasSubstring(anchors[n], ViewPhp)}}

\* the relative and the absolute href of one document, and another page: one URL
OneUrlForThreeAnchors ==
    /\ pc = "return"
    /\ browse = "ok"
    /\ anchors = <<HrefRelative, HrefAbsolute, HrefOther>>
    /\ policy_links = <<HrefAbsolute>>

(***************************************************************************)
(* The driver: scrape_all_policies over a browse page drawn from           *)
(* ListingSamples, each link answered by a response drawn from Responses.  *)
(***************************************************************************)
MaxPolicies == 2

ListingSamples ==
    {<<>>, <<HrefOther>>, <<HrefRelative, HrefAbsolute, HrefOther>>,
     <<HrefRelative, HrefViewPhp, HrefOverview>>}

\* no h2 and no h3
PageNoHeadings == Wrap("body", <<PLong, OlNested>>)

\* a heading and a short paragraph
PageNoClauses == Wrap("div.content", <<H2Scope, PShort>>)

PageWithSection == Wrap("body", <<H2Scope, PLong, OlGap>>)

PageSamples == {PageNoHeadings, PageNoClauses, PageWithSection}

Responses ==
    {[kind |-> "RequestException", page |-> <<>>], [kind |-> "Exception", page |-> <<>>]}
    \cup {[kind |-> "page", page |-> p] : p \in PageSamples}

Init ==
    /\ pc = "start"
    /\ browse \in {"ok", "RequestException"}
    /\ anchors \in ListingSamples
    /\ max_policies \in -1..MaxPolicies
    /\ policy_links = <<>>
    /\ i = 0
    /\ success_count = 0
    /\ failed_count = 0
    /\ log = <<>>
    /\ save_calls = <<>>
    /\ summary = NoSummary
    /\ CleanIdle
    /\ ClauseIdle
    /\ DocIdle
    /\ DateIdle

\* lines 260-273: the links are fetched; with none the run is over
Start ==
    /\ pc = "start"
    /\ \E links \in get_all_policy_links(browse, anchors) :
           IF links = <<>>
           THEN /\ policy_links' = links
                /\ summary' = [success |-> 0, failed |-> 0, total |-> 0]
                /\ pc' = "done"
           ELSE /\ policy_links' = Truncated(links, max_policies)
                /\ summary' = summary
                /\ pc' = "loop"
    /\ UNCHANGED <<browse, anchors, max_policies, i, success_count, failed_count,
                   log, save_calls, cleanVars, clauseVars, docVars, dateVars>>

\* lines 275-296: one turn of the loop
ScrapeNext ==
    /\ pc = "loop"
    /\ i < Len(policy_links)
    /\ \E response \in Responses :
           LET url == policy_links[i + 1]
               policy == Extracted(url, response)
               saves == response.kind # "Exception" /\ Persistable(policy)
           IN  \E write \in IF saves THEN {"ok", "OSError"} ELSE {"ok"} :
                   LET outcome == Outcome(response, policy, write)
                       counts == Counted(outcome, success_count, failed_count)
                   IN  /\ save_calls' =
                              IF saves THEN Append(save_calls, policy) ELSE save_calls
                       /\ log' = Append(log, [url |-> url, response |-> response,
                                             policy |-> policy, outcome |-> outcome])
                       /\ success_count' = counts.success
                       /\ failed_count' = counts.failed
                       /\ pc' = AfterTurn(outcome)
    /\ i' = i + 1
    /\ UNCHANGED <<browse, anchors, policy_links, max_policies, summary,
                   cleanVars, clauseVars, docVars, dateVars>>

\* lines 298-311: the summary
Finish ==
    /\ pc = "loop"
    /\ i = Len(policy_links)
    /\ summary' = [success |-> success_count, failed |-> failed_count,
                   total |-> Len(policy_links)]
    /\ pc' = "done"
    /\ UNCHANGED <<browse, anchors, policy_links, max_policies, i, success_count,
                   failed_count, log, save_calls,
                   cleanVars, clauseVars, docVars, dateVars>>

Next == Start \/ ScrapeNext \/ Finish

Spec == Init /\ [][Next]_vars

\* the run is one sequential loop that nothing suspends: a step that can be
\* taken is taken
FairSpec == Spec /\ WF_vars(Next)

\* C1: after the k-th link has been handled success_count + failed_count = k,
\* whatever the outcomes were, and the summary returned has
\* success + failed = total, total the length of the list that was iterated.
CountsAddUp ==
    /\ success_count + failed_count = i
    /\ i = Len(log)
    /\ pc = "done" =>
           /\ summary.success + summary.failed = summary.total
           /\ summary.total = Len(policy_links)

\* three links: one fetch fails, one document has no section, one is saved
OneOfThreeSaved ==
    /\ pc = "done"
    /\ summary = [success |-> 1, failed |-> 2, total |-> 3]
    /\ \E k \in 1..3 : log[k].response.kind = "RequestException"
    /\ \E k \in 1..3 : log[k].response.kind = "page" /\ log[k].outcome = "skipped"
    /\ \E k \in 1..3 : log[k].outcome = "saved"

\* C2: no outcome of a link ends the run: the links are taken one by one in the
\* order of the list, each once, and the run reaches the summary with every
\* link of the list taken.
EveryLinkAttemptedOnce ==
    /\ [](/\ Len(log) = i
          /\ i <= Len(policy_links)
          /\ \A k \in 1..Len(log) : log[k].url = policy_links[k])
    /\ [](pc = "done" => Len(log) = Len(policy_links))
    /\ <>(pc = "done")

\* the first link raises, the second cannot be fetched, the third is saved
RunSurvivesFailures ==
    /\ pc = "done"
    /\ Len(log) = 3
    /\ log[1].outcome = "error"
    /\ log[2].response.kind = "RequestException"
    /\ log[3].outcome = "saved"

\* C3: save_policy_json is called only with a document, not None, whose one
\* Part has a section; a page with no h2 and no h3 gives a document with one
\* Part and no section, which is not saved and is counted as failed.
SavedOnlyWithSections ==
    /\ \A k \in 1..Len(save_calls) :
           /\ save_calls[k] # None
           /\ Len(save_calls[k].structure) = 1
           /\ SectionsOf(save_calls[k]) # <<>>
    /\ \A k \in 1..Len(log) :
           (log[k].response.kind = "page"
                /\ FindAll(log[k].response.page, {"h2", "h3"}) = <<>>) =>
               /\ log[k].policy # None
               /\ Len(log[k].policy.structure) = 1
               /\ SectionsOf(log[k].policy) = <<>>
               /\ log[k].outcome = "skipped"
               /\ \A m \in 1..Len(save_calls) : save_calls[m] # log[k].policy
    /\ failed_count = Cardinality({k \in 1..Len(log) : log[k].outcome # "saved"})

\* a page without headings was skipped and another document was saved
HeadinglessPageSkipped ==
    /\ Len(save_calls) >= 1
    /\ \E k \in 1..Len(log) :
           /\ log[k].response.page = PageNoHeadings
           /\ log[k].outcome = "skipped"
           /\ failed_count >= 1
====
